---- MODULE Spec2Model ----
(***************************************************************************)
(* werf dismiss (cmd/werf/dismiss/dismiss.go): resolution of the target    *)
(* (namespace, release) pair and the coordination of the helm uninstall    *)
(* delegate, for several dismiss processes run against one cluster.        *)
(***************************************************************************)
EXTENDS Integers, Sequences, FiniteSets, TLC

(* ------------------------------ bounds -------------------------------- *)

\* number of dismiss processes run against the cluster
NumInv == 2
\* longest deploy report document, in JSON members
MaxFields == 2
\* most lines the function given to RunWithDeferredLog logs
MaxLines == 2

Procs == 1..NumInv

(* --------------------------- value universes -------------------------- *)

\* values of --namespace / --release ("" is "flag not given")
NamespaceFlags == {"", "ns1", "ns2"}
ReleaseFlags == {"", "rel1"}
EnvironmentFlags == {"", "dev"}

\* a JSON value that is not a string (a number, an object, ...)
NonString == "#nonstring"

\* members a deploy report document may hold: <<key, value>>
ReportMembers ==
    ({"namespace"} \X {"", "ns1", "ns2", NonString}) \cup ({"release"} \X {"", "rel1", NonString})

RECURSIVE SeqsUpTo(_, _)
SeqsUpTo(S, n) ==
    IF n = 0 THEN {<<>>}
    ELSE LET shorter == SeqsUpTo(S, n - 1)
         IN shorter \cup {Append(s, x) : s \in {t \in shorter : Len(t) = n - 1}, x \in S}

\* the report path holds no file / holds bytes that are not JSON
NoFile == [kind |-> "nofile", members |-> <<>>]
Malformed == [kind |-> "malformed", members |-> <<>>]
\* the local deployReportByte before os.ReadFile has run
NoBytes == [kind |-> "unread", members |-> <<>>]

JsonFile(ms) == [kind |-> "json", members |-> ms]

ReportFiles == {NoFile, Malformed} \cup {JsonFile(ms) : ms \in SeqsUpTo(ReportMembers, MaxFields)}

\* releases installed in the cluster when the processes start
InitialReleases == {<<"ns1", "rel1">>, <<"ns2", "rel1">>}

(* ------------------------------ errors -------------------------------- *)

NoErr == ""
ErrInit == "initialization error"
ErrGiterminism == "giterminism manager error"
ErrKubeInit == "kube init error"
ErrConflict == "--namespace or --release can't be used together with --use-deploy-report"
ErrReportPath == "unable to get deploy report path"
ErrReportRead == "unable to read deploy report file"
ErrReportUnmarshal == "unable to unmarshal deploy report file"
ErrReportNamespace == "unable to get namespace from deploy report file"
ErrReportRelease == "unable to get release from deploy report file"
ErrWerfConfig == "unable to load werf config"
ErrNothingSpecified == "no git with werf project found"
ErrReleaseMissing == "--namespace specified, but not --release, while should be specified both or none"
ErrNamespaceMissing == "--release specified, but not --namespace, while should be specified both or none"
ErrRegistryClient == "unable to create helm registry client"
ErrLockManager == "unable to create lock manager"
ErrActionConfig == "init action config error"
ErrLock == "unable to lock release"
ErrUninstall == "uninstall error"
ErrCancelled == "context canceled"
ErrNoRelease == "uninstall: release not found"

\* result of a process that has not returned yet / that returned nil
Running == "#running"
Ok == "#nil"

VARIABLES
    launched,         \* the dismiss processes that are run
    cmd,              \* commonCmdData / cmdData of each process: its flags
    reportFile,       \* the file at the deploy report path
    workTree,         \* whether each process runs inside a git work tree
    pc,               \* position of each process in runDismiss
    gitFound,         \* runDismiss local gitFound
    deployReportByte, \* getNamespaceAndRelease local: what os.ReadFile returned
    pathResolved,     \* whether GetDeployReportPath has been called
    sources,          \* identity sources getNamespaceAndRelease consulted
    namespace,        \* runDismiss local namespace
    release,          \* runDismiss local release
    lockManager,      \* runDismiss local lockManager: the namespace it serves, or NoManager
    opts,             \* helm_v3.UninstallCmdOptions given to NewUninstallCmd
    history,          \* what actionConfig.Releases.History reported
    held,             \* lock key each process holds, or NoLock
    calls,            \* delegate calls each process has made
    cmdErr,           \* the delegate's error, on its way out of LockReleaseWrapper
    result,           \* what runDismiss returned
    releases          \* releases installed in the cluster

\* logging.RunWithDeferredLog
VARIABLES
    deferLog,         \* the argument deferLog
    run,              \* the argument run: the lines it logs and the error it returns
    logPc,            \* position in RunWithDeferredLog
    logged,           \* number of lines run has logged so far
    runCalls,         \* number of calls of run
    ctxLog,           \* what the logger of the caller's context has written out
    buf,              \* the buffer behind bufLogger
    stdout,           \* what fmt.Println has written
    ret               \* what RunWithDeferredLog returned

dismissVars ==
    <<launched, cmd, reportFile, workTree, pc, gitFound, deployReportByte, pathResolved, sources,
      namespace, release, lockManager, opts, history, held, calls, cmdErr, result, releases>>

logVars == <<deferLog, run, logPc, logged, runCalls, ctxLog, buf, stdout, ret>>

vars == <<dismissVars, logVars>>

NoManager == "#nomanager"
NoLock == "#nolock"
NoOpts == [DeleteNamespace |-> FALSE, DeleteHooks |-> FALSE, DontFailIfNoRelease |-> FALSE, set |-> FALSE]

(* ------------------- getNamespaceAndRelease (pure part) ---------------- *)

\* json.Unmarshal into helmrelease.DeployReport: members are taken in order, a
\* later member overrides an earlier one, a member whose value is no string is
\* a type error, an absent member leaves the field "".
RECURSIVE Decode(_, _)
Decode(members, acc) ==
    IF members = <<>> THEN acc
    ELSE LET m == Head(members)
             next == IF m[2] = NonString THEN [acc EXCEPT !.err = TRUE]
                     ELSE IF m[1] = "namespace" THEN [acc EXCEPT !.Namespace = m[2]]
                     ELSE IF m[1] = "release" THEN [acc EXCEPT !.Release = m[2]]
                     ELSE acc
         IN Decode(Tail(members), next)

Unmarshal(bytes) ==
    IF bytes.kind # "json" THEN [err |-> TRUE, Namespace |-> "", Release |-> ""]
    ELSE Decode(bytes.members, [err |-> FALSE, Namespace |-> "", Release |-> ""])

\* what getNamespaceAndRelease returns, with what it touched on the way
Resolution(ns, rel, err, resolvedPath, bytes, consulted) ==
    [namespace |-> ns, release |-> rel, err |-> err,
     pathResolved |-> resolvedPath, bytes |-> bytes, sources |-> consulted]

Failure(err, resolvedPath, bytes, consulted) ==
    Resolution("", "", err, resolvedPath, bytes, consulted)

\* lines 279-288: the checks on the decoded report
ReportFieldsSwapped(report, bytes) ==
    IF report.Release = "" THEN Failure(ErrReportRelease, TRUE, bytes, {"report"})
    ELSE IF report.Namespace = "" THEN Failure(ErrReportNamespace, TRUE, bytes, {"report"})
    ELSE Resolution(report.Namespace, report.Release, NoErr, TRUE, bytes, {"report"})

ReportFieldsUnchecked(report, bytes) ==
    IF report.Namespace = "" THEN Failure(ErrReportNamespace, TRUE, bytes, {"report"})
    ELSE Resolution(report.Namespace, report.Release, NoErr, TRUE, bytes, {"report"})

ReportFieldsCrossed(report, bytes) ==
    IF report.Namespace = "" THEN Failure(ErrReportNamespace, TRUE, bytes, {"report"})
    ELSE IF report.Release = "" THEN Failure(ErrReportRelease, TRUE, bytes, {"report"})
    ELSE Resolution(report.Release, report.Namespace, NoErr, TRUE, bytes, {"report"})

ReportFields(report, bytes) ==
    IF report.Namespace = "" THEN Failure(ErrReportNamespace, TRUE, bytes, {"report"})
    ELSE IF report.Release = "" THEN Failure(ErrReportRelease, TRUE, bytes, {"report"})
    ELSE Resolution(report.Namespace, report.Release, NoErr, TRUE, bytes, {"report"})

\* lines 264-288: the deploy report is located, read, decoded and checked
ReadDeployReport(pathOk, file) ==
    IF ~pathOk THEN Failure(ErrReportPath, TRUE, NoBytes, {"report"})
    ELSE IF file = NoFile THEN Failure(ErrReportRead, TRUE, file, {"report"})
    ELSE LET report == Unmarshal(file)
         IN IF report.err THEN Failure(ErrReportUnmarshal, TRUE, file, {"report"})
            ELSE ReportFields(report, file)

\* lines 260-262: explicit flags exclude --use-deploy-report
ConflictsNever(c) == FALSE

Conflicts(c) == c.Namespace # "" \/ c.Release # ""

\* pkg/config/deploy_params: the namespace is the --namespace override, else
\* the one derived from the project name and the environment.
ProjectName == "proj"

GetKubernetesNamespace(namespaceOption, environmentOption, werfConfig) ==
    IF namespaceOption # "" THEN namespaceOption
    ELSE IF environmentOption = "" THEN ProjectName
    ELSE ProjectName \o "-" \o environmentOption

\* pkg/config/deploy_params: the release is the --release override, else the one
\* derived from the project name and the environment.
GetHelmRelease(releaseOption, environmentOption, ns, werfConfig) ==
    IF releaseOption # "" THEN releaseOption
    ELSE IF environmentOption = "" THEN ProjectName
    ELSE ProjectName \o "-" \o environmentOption

\* lines 290-306: the pair is derived from the project's werf.yaml
FromProject(c, werfConfig) ==
    LET consulted == {"project"} \cup (IF c.Namespace # "" \/ c.Release # "" THEN {"flags"} ELSE {})
    IN IF werfConfig = "noconfig" THEN Failure(ErrWerfConfig, FALSE, NoBytes, {"project"})
       ELSE LET ns == GetKubernetesNamespace(c.Namespace, c.Environment, werfConfig)
            IN Resolution(ns, GetHelmRelease(c.Release, c.Environment, ns, werfConfig),
                          NoErr, FALSE, NoBytes, consulted)

\* lines 308-317: without git both flags are required
FromFlagsDefaulting(c) ==
    IF c.Namespace = "" /\ c.Release = "" THEN Failure(ErrNothingSpecified, FALSE, NoBytes, {})
    ELSE Resolution(IF c.Namespace = "" THEN "default" ELSE c.Namespace,
                    IF c.Release = "" THEN c.Namespace ELSE c.Release,
                    NoErr, FALSE, NoBytes, {"flags"})

FromFlagsLenient(c) ==
    IF c.Namespace # "" /\ c.Release = "" THEN Failure(ErrReleaseMissing, FALSE, NoBytes, {"flags"})
    ELSE IF c.Namespace = "" /\ c.Release # "" THEN Failure(ErrNamespaceMissing, FALSE, NoBytes, {"flags"})
    ELSE Resolution(c.Namespace, c.Release, NoErr, FALSE, NoBytes, {"flags"})

FromFlags(c) ==
    IF c.Namespace = "" /\ c.Release = "" THEN Failure(ErrNothingSpecified, FALSE, NoBytes, {})
    ELSE IF c.Namespace # "" /\ c.Release = "" THEN Failure(ErrReleaseMissing, FALSE, NoBytes, {"flags"})
    ELSE IF c.Namespace = "" /\ c.Release # "" THEN Failure(ErrNamespaceMissing, FALSE, NoBytes, {"flags"})
    ELSE Resolution(c.Namespace, c.Release, NoErr, FALSE, NoBytes, {"flags"})

\* lines 253-321
getNamespaceAndReleaseProjectFirst(c, found, pathOk, file, werfConfig) ==
    IF found THEN FromProject(c, werfConfig)
    ELSE IF c.UseDeployReport
    THEN IF Conflicts(c) THEN Failure(ErrConflict, FALSE, NoBytes, {"report", "flags"})
         ELSE ReadDeployReport(pathOk, file)
    ELSE FromFlags(c)

getNamespaceAndRelease(c, found, pathOk, file, werfConfig) ==
    IF c.UseDeployReport
    THEN IF Conflicts(c) THEN Failure(ErrConflict, FALSE, NoBytes, {"report", "flags"})
         ELSE ReadDeployReport(pathOk, file)
    ELSE IF found THEN FromProject(c, werfConfig)
    ELSE FromFlags(c)

(* ------------------------------ runDismiss ----------------------------- *)

Flags ==
    [Namespace : NamespaceFlags, Release : ReleaseFlags, Environment : EnvironmentFlags,
     UseDeployReport : BOOLEAN, WithNamespace : BOOLEAN, WithHooks : BOOLEAN]

\* the flags of processes run side by side: the pair is given explicitly
ConcurrentFlags ==
    [Namespace : {"ns1", "ns2"}, Release : {"rel1"}, Environment : {""},
     UseDeployReport : {FALSE}, WithNamespace : BOOLEAN, WithHooks : {TRUE}]

\* the flags of a process that is never launched
NoFlags ==
    [Namespace |-> "", Release |-> "", Environment |-> "",
     UseDeployReport |-> FALSE, WithNamespace |-> FALSE, WithHooks |-> TRUE]

\* Either one dismiss process runs, with any flags and any deploy report on
\* disk, in a git work tree or outside one, or all of them run side by side
\* outside git with explicit flags (the namespaces being interchangeable, the
\* first process is given ns1).
\* runDismiss has not begun in any process
AtStart ==
    /\ pc = [i \in Procs |-> "init"]
    /\ gitFound = [i \in Procs |-> FALSE]
    /\ deployReportByte = [i \in Procs |-> NoBytes]
    /\ pathResolved = [i \in Procs |-> FALSE]
    /\ sources = [i \in Procs |-> {}]
    /\ namespace = [i \in Procs |-> ""]
    /\ release = [i \in Procs |-> ""]
    /\ lockManager = [i \in Procs |-> NoManager]
    /\ opts = [i \in Procs |-> NoOpts]
    /\ history = [i \in Procs |-> "none"]
    /\ held = [i \in Procs |-> NoLock]
    /\ calls = [i \in Procs |-> <<>>]
    /\ cmdErr = [i \in Procs |-> NoErr]
    /\ result = [i \in Procs |-> Running]
    /\ releases = InitialReleases

\* RunWithDeferredLog is not called
LogOff ==
    /\ deferLog = FALSE
    /\ run = [lines |-> <<>>, err |-> Ok]
    /\ logPc = "off"
    /\ logged = 0
    /\ runCalls = 0
    /\ ctxLog = <<>>
    /\ buf = <<>>
    /\ stdout = <<>>
    /\ ret = Running

Init ==
    /\ \/ /\ launched = {1}
          /\ \E f \in Flags : cmd = [i \in Procs |-> IF i = 1 THEN f ELSE NoFlags]
          /\ reportFile \in (IF cmd[1].UseDeployReport THEN ReportFiles ELSE {NoFile})
          /\ \E w \in BOOLEAN : workTree = [i \in Procs |-> i = 1 /\ w]
       \/ /\ launched = Procs
          /\ cmd \in {f \in [Procs -> ConcurrentFlags] : f[1].Namespace = "ns1"}
          /\ reportFile = NoFile
          /\ workTree = [i \in Procs |-> FALSE]
    /\ AtStart
    /\ LogOff

Goto(i, label) == pc' = [pc EXCEPT ![i] = label] /\ result' = result

Return(i, r) == pc' = [pc EXCEPT ![i] = "done"] /\ result' = [result EXCEPT ![i] = r]

\* lines 141-172: werf.Init ... lrumeta.Init
Initialize(i) ==
    /\ i \in launched
    /\ pc[i] = "init"
    /\ \E ok \in BOOLEAN : IF ok THEN Goto(i, "giterminism") ELSE Return(i, ErrInit)
    /\ UNCHANGED <<logVars, launched, cmd, reportFile, workTree, gitFound, deployReportByte, pathResolved, sources,
                   namespace, release, lockManager, opts, history, held, calls, cmdErr, releases>>

\* lines 176-183: only GitWorktreeNotFoundError is tolerated
GetGiterminismManager(i) ==
    /\ i \in launched
    /\ pc[i] = "giterminism"
    /\ \E outcome \in {IF workTree[i] THEN "found" ELSE "notfound", "error"} :
          IF outcome = "error"
          THEN Return(i, ErrGiterminism) /\ gitFound' = gitFound
          ELSE Goto(i, "kube") /\ gitFound' = [gitFound EXCEPT ![i] = (outcome = "found")]
    /\ UNCHANGED <<logVars, launched, cmd, reportFile, workTree, deployReportByte, pathResolved, sources,
                   namespace, release, lockManager, opts, history, held, calls, cmdErr, releases>>

\* lines 185-188
KubeInit(i) ==
    /\ i \in launched
    /\ pc[i] = "kube"
    /\ \E ok \in BOOLEAN : IF ok THEN Goto(i, "resolve") ELSE Return(i, ErrKubeInit)
    /\ UNCHANGED <<logVars, launched, cmd, reportFile, workTree, gitFound, deployReportByte, pathResolved, sources,
                   namespace, release, lockManager, opts, history, held, calls, cmdErr, releases>>

\* lines 190-193
Resolve(i) ==
    /\ i \in launched
    /\ pc[i] = "resolve"
    /\ \E pathOk \in BOOLEAN, werfConfig \in {"noconfig", ProjectName} :
          LET r == getNamespaceAndRelease(cmd[i], gitFound[i], pathOk, reportFile, werfConfig)
          IN /\ deployReportByte' = [deployReportByte EXCEPT ![i] = r.bytes]
             /\ pathResolved' = [pathResolved EXCEPT ![i] = r.pathResolved]
             /\ sources' = [sources EXCEPT ![i] = r.sources]
             /\ IF r.err # NoErr
                THEN Return(i, r.err) /\ UNCHANGED <<namespace, release>>
                ELSE /\ Goto(i, "registry")
                     /\ namespace' = [namespace EXCEPT ![i] = r.namespace]
                     /\ release' = [release EXCEPT ![i] = r.release]
    /\ UNCHANGED <<logVars, launched, cmd, reportFile, workTree, gitFound, lockManager, opts, history, held, calls, cmdErr, releases>>

\* lines 195-201
NewHelmRegistryClient(i) ==
    /\ i \in launched
    /\ pc[i] = "registry"
    /\ IF gitFound[i]
       THEN \E ok \in BOOLEAN : IF ok THEN Goto(i, "lockmgr") ELSE Return(i, ErrRegistryClient)
       ELSE Goto(i, "lockmgr")
    /\ UNCHANGED <<logVars, launched, cmd, reportFile, workTree, gitFound, deployReportByte, pathResolved, sources,
                   namespace, release, lockManager, opts, history, held, calls, cmdErr, releases>>

\* line 204: the lock manager is wanted unless the namespace is deleted too
WantsLockManagerAlways(c) == TRUE

WantsLockManager(c) == ~c.WithNamespace

\* lines 203-210, the error of NewLockManager not returned
NewLockManagerErrorDropped(i) ==
    /\ i \in launched
    /\ pc[i] = "lockmgr"
    /\ IF WantsLockManager(cmd[i])
       THEN \E ok \in BOOLEAN :
              IF ok
              THEN Goto(i, "actioncfg") /\ lockManager' = [lockManager EXCEPT ![i] = namespace[i]]
              ELSE Goto(i, "actioncfg") /\ lockManager' = lockManager
       ELSE Goto(i, "actioncfg") /\ lockManager' = lockManager
    /\ UNCHANGED <<logVars, launched, cmd, reportFile, workTree, gitFound, deployReportByte, pathResolved, sources,
                   namespace, release, opts, history, held, calls, cmdErr, releases>>

\* lines 203-210
NewLockManager(i) ==
    /\ i \in launched
    /\ pc[i] = "lockmgr"
    /\ IF WantsLockManager(cmd[i])
       THEN \E ok \in BOOLEAN :
              IF ok
              THEN Goto(i, "actioncfg") /\ lockManager' = [lockManager EXCEPT ![i] = namespace[i]]
              ELSE Return(i, ErrLockManager) /\ lockManager' = lockManager
       ELSE Goto(i, "actioncfg") /\ lockManager' = lockManager
    /\ UNCHANGED <<logVars, launched, cmd, reportFile, workTree, gitFound, deployReportByte, pathResolved, sources,
                   namespace, release, opts, history, held, calls, cmdErr, releases>>

\* lines 212-225
InitActionConfig(i) ==
    /\ i \in launched
    /\ pc[i] = "actioncfg"
    /\ \E ok \in BOOLEAN : IF ok THEN Goto(i, "uninstallcmd") ELSE Return(i, ErrActionConfig)
    /\ UNCHANGED <<logVars, launched, cmd, reportFile, workTree, gitFound, deployReportByte, pathResolved, sources,
                   namespace, release, lockManager, opts, history, held, calls, cmdErr, releases>>

\* lines 227-233
UninstallCmdOptionsHooksForced(c) ==
    [DeleteNamespace |-> c.WithNamespace, DeleteHooks |-> TRUE,
     DontFailIfNoRelease |-> TRUE, set |-> TRUE]

UninstallCmdOptionsFailIfNoRelease(c) ==
    [DeleteNamespace |-> c.WithNamespace, DeleteHooks |-> c.WithHooks,
     DontFailIfNoRelease |-> FALSE, set |-> TRUE]

UninstallCmdOptions(c) ==
    [DeleteNamespace |-> c.WithNamespace, DeleteHooks |-> c.WithHooks,
     DontFailIfNoRelease |-> TRUE, set |-> TRUE]

\* line 238: with --with-namespace the delegate is run directly
DirectUninstallAlways(c) == TRUE

DirectUninstall(c) == c.WithNamespace

\* lines 227-238
NewUninstallCmd(i) ==
    /\ i \in launched
    /\ pc[i] = "uninstallcmd"
    /\ opts' = [opts EXCEPT ![i] = UninstallCmdOptions(cmd[i])]
    /\ Goto(i, IF DirectUninstall(cmd[i]) THEN "delegate" ELSE "history")
    /\ UNCHANGED <<logVars, launched, cmd, reportFile, workTree, gitFound, deployReportByte, pathResolved, sources,
                   namespace, release, lockManager, history, held, calls, cmdErr, releases>>

\* actionConfig.Releases.History: the stored revisions, driver.ErrReleaseNotFound,
\* or another error (the storage cannot be reached)
HistoryOutcomes(ns, rel) ==
    {IF <<ns, rel>> \in releases THEN "found" ELSE "notfound", "error"}

\* line 242: only driver.ErrReleaseNotFound ends the run
EndsOnHistoryNever(outcome) == FALSE

EndsOnHistory(outcome) == outcome = "notfound"

\* lines 242-245
History(i) ==
    /\ i \in launched
    /\ pc[i] = "history"
    /\ \E outcome \in HistoryOutcomes(namespace[i], release[i]) :
          /\ history' = [history EXCEPT ![i] = outcome]
          /\ IF EndsOnHistory(outcome) THEN Return(i, Ok) ELSE Goto(i, "lock")
    /\ UNCHANGED <<logVars, launched, cmd, reportFile, workTree, gitFound, deployReportByte, pathResolved, sources,
                   namespace, release, lockManager, opts, held, calls, cmdErr, releases>>

(* ---------- command_helpers.LockReleaseWrapper and the delegate -------- *)

\* the lock a manager takes for a release: one per namespace
LockKey(manager, rel) == manager

LockFree(key) == \A j \in Procs : held[j] # key

\* line 247, LockReleaseWrapper: the lock is awaited; acquiring it may fail
AcquireLock(i) ==
    /\ i \in launched
    /\ pc[i] = "lock"
    /\ \/ /\ LockFree(LockKey(lockManager[i], release[i]))
          /\ held' = [held EXCEPT ![i] = LockKey(lockManager[i], release[i])]
          /\ Goto(i, "delegate")
       \/ /\ held' = held
          /\ Return(i, ErrLock)
    /\ UNCHANGED <<logVars, launched, cmd, reportFile, workTree, gitFound, deployReportByte, pathResolved, sources,
                   namespace, release, lockManager, opts, history, calls, cmdErr, releases>>

\* lines 240 and 248: helmUninstallCmd.RunE(helmUninstallCmd, []string{release})
UninstallCall(i) ==
    [release |-> release[i], namespace |-> namespace[i],
     DeleteNamespace |-> opts[i].DeleteNamespace, DeleteHooks |-> opts[i].DeleteHooks,
     DontFailIfNoRelease |-> opts[i].DontFailIfNoRelease, lock |-> held[i]]

RunUninstall(i) ==
    /\ i \in launched
    /\ pc[i] = "delegate"
    /\ calls' = [calls EXCEPT ![i] = Append(calls[i], UninstallCall(i))]
    /\ Goto(i, "running")
    /\ UNCHANGED <<logVars, launched, cmd, reportFile, workTree, gitFound, deployReportByte, pathResolved, sources,
                   namespace, release, lockManager, opts, history, held, cmdErr, releases>>

\* helm uninstall: it removes the release, fails, or is cancelled; an absent
\* release is a failure unless DontFailIfNoRelease is set
UninstallOutcomes(i) ==
    (IF <<namespace[i], release[i]>> \in releases \/ opts[i].DontFailIfNoRelease
     THEN {Ok} ELSE {ErrNoRelease})
    \cup {ErrUninstall, ErrCancelled}

Uninstalled(i) ==
    IF opts[i].DeleteNamespace
    THEN {r \in releases : r[1] # namespace[i]}
    ELSE releases \ {<<namespace[i], release[i]>>}

\* lines 240 and 248: the delegate returns
UninstallReturns(i) ==
    /\ i \in launched
    /\ pc[i] = "running"
    /\ \E outcome \in UninstallOutcomes(i) :
          /\ releases' = IF outcome = Ok THEN Uninstalled(i) ELSE releases
          /\ IF held[i] # NoLock
             THEN Goto(i, "unlock") /\ cmdErr' = [cmdErr EXCEPT ![i] = outcome]
             ELSE Return(i, outcome) /\ cmdErr' = cmdErr
    /\ UNCHANGED <<logVars, launched, cmd, reportFile, workTree, gitFound, deployReportByte, pathResolved, sources,
                   namespace, release, lockManager, opts, history, held, calls>>

\* LockReleaseWrapper: the unlock is deferred, so it runs whatever cmdFunc returned
UnlocksOnSuccess(e) == e = Ok

UnlocksOn(e) == TRUE

\* line 247, LockReleaseWrapper returning
Unlock(i) ==
    /\ i \in launched
    /\ pc[i] = "unlock"
    /\ held' = [held EXCEPT ![i] = IF UnlocksOn(cmdErr[i]) THEN NoLock ELSE @]
    /\ Return(i, cmdErr[i])
    /\ UNCHANGED <<logVars, launched, cmd, reportFile, workTree, gitFound, deployReportByte, pathResolved, sources,
                   namespace, release, lockManager, opts, history, calls, cmdErr, releases>>

Next ==
    \E i \in Procs :
        \/ Initialize(i)
        \/ GetGiterminismManager(i)
        \/ KubeInit(i)
        \/ Resolve(i)
        \/ NewHelmRegistryClient(i)
        \/ NewLockManager(i)
        \/ InitActionConfig(i)
        \/ NewUninstallCmd(i)
        \/ History(i)
        \/ AcquireLock(i)
        \/ RunUninstall(i)
        \/ UninstallReturns(i)
        \/ Unlock(i)

Spec == Init /\ [][Next]_vars

(* ------------------------------ properties ----------------------------- *)

\* getNamespaceAndRelease has returned in process i
ResolveDone(i) ==
    /\ pc[i] \notin {"init", "giterminism", "kube", "resolve"}
    /\ result[i] \notin {ErrInit, ErrGiterminism, ErrKubeInit}

ResolveErrors ==
    {ErrConflict, ErrReportPath, ErrReportRead, ErrReportUnmarshal, ErrReportNamespace,
     ErrReportRelease, ErrWerfConfig, ErrNothingSpecified, ErrReleaseMissing, ErrNamespaceMissing}

\* getNamespaceAndRelease has returned a pair and no error in process i
ResolvedOk(i) == ResolveDone(i) /\ result[i] \notin ResolveErrors

Locked(i) == ~cmd[i].WithNamespace

NoSideEffect(i) ==
    /\ lockManager[i] = NoManager
    /\ held[i] = NoLock
    /\ history[i] = "none"
    /\ calls[i] = <<>>

\* C1: processes that resolve to the same namespace and run without
\* --with-namespace are never inside the uninstall delegate at the same time: a
\* process is inside the delegate only while it holds the lock of its
\* namespace, and no two processes hold the same lock.
C1_MutualExclusion ==
    \A i \in Procs :
        /\ (Locked(i) /\ pc[i] = "running") => held[i] = namespace[i]
        /\ \A j \in Procs \ {i} :
              /\ (held[i] # NoLock) => held[j] # held[i]
              /\ (Locked(i) /\ Locked(j) /\ namespace[i] = namespace[j])
                    => ~(pc[i] = "running" /\ pc[j] = "running")

\* one process is inside the delegate while another one of the same namespace
\* waits for the lock
C1_Witness ==
    \E i, j \in Procs :
        /\ i # j /\ Locked(i) /\ Locked(j)
        /\ namespace[i] = namespace[j]
        /\ pc[i] = "running" /\ pc[j] = "lock"

\* C2: a process that has returned holds no lock, whether the delegate
\* succeeded, failed or was cancelled: the delegate's error is returned only
\* once the lock is released.
C2_LockReleased ==
    \A i \in Procs :
        /\ (pc[i] = "done" \/ result[i] # Running) => held[i] = NoLock
        /\ held[i] # NoLock => pc[i] \in {"delegate", "running", "unlock"}

\* a process has returned the delegate's cancellation after running it under the lock
C2_Witness ==
    \E i \in Procs :
        /\ pc[i] = "done" /\ result[i] = ErrCancelled
        /\ Len(calls[i]) = 1 /\ calls[i][1].lock # NoLock
        /\ held[i] = NoLock

\* C3: a process without --with-namespace whose history query reports
\* release-not-found returns nil without running the delegate.
C3_NotFoundIsSuccess ==
    \A i \in Procs :
        history[i] = "notfound" =>
            /\ Locked(i)
            /\ pc[i] = "done" /\ result[i] = Ok
            /\ calls[i] = <<>> /\ held[i] = NoLock

\* a second dismiss of a release that a first dismiss has uninstalled
C3_Witness ==
    \E i, j \in Procs :
        /\ i # j
        /\ namespace[i] = namespace[j] /\ release[i] = release[j]
        /\ result[j] = Ok /\ Len(calls[j]) = 1
        /\ history[i] = "notfound" /\ result[i] = Ok /\ calls[i] = <<>>

\* the uninstall step has been reached on the --with-namespace path
DirectUninstallReached(i) ==
    cmd[i].WithNamespace /\ (pc[i] = "running" \/ (pc[i] = "done" /\ opts[i].set))

\* C4 as claimed: with --with-namespace no lock manager is created, no lock is
\* taken, the history is not queried, and the delegate is called once with the
\* namespace-deletion and the hook-deletion flags both true.
C4_HooksAlwaysDeleted ==
    \A i \in Procs :
        /\ cmd[i].WithNamespace =>
              lockManager[i] = NoManager /\ held[i] = NoLock /\ history[i] = "none"
        /\ DirectUninstallReached(i) =>
              /\ Len(calls[i]) = 1
              /\ calls[i][1].DeleteNamespace
              /\ calls[i][1].DeleteHooks

\* C4 amended: ... the delegate is called once with the namespace-deletion flag
\* true and the hook-deletion flag equal to --with-hooks.
C4_DirectUninstall ==
    \A i \in Procs :
        /\ cmd[i].WithNamespace =>
              /\ lockManager[i] = NoManager /\ held[i] = NoLock /\ history[i] = "none"
              /\ Len(calls[i]) <= 1
        /\ DirectUninstallReached(i) =>
              /\ Len(calls[i]) = 1
              /\ calls[i][1].DeleteNamespace
              /\ calls[i][1].DeleteHooks = cmd[i].WithHooks
              /\ calls[i][1].lock = NoLock

\* the delegate has been run directly, with hooks kept
C4_Witness ==
    \E i \in Procs :
        /\ DirectUninstallReached(i) /\ pc[i] = "done"
        /\ ~cmd[i].WithHooks /\ Len(calls[i]) = 1

\* C5: a resolution that returns no error returns a non-empty namespace and a
\* non-empty release, and the delegate is never called with an empty one.
C5_IdentityNonEmpty ==
    \A i \in Procs :
        /\ ResolvedOk(i) => namespace[i] # "" /\ release[i] # ""
        /\ \A k \in 1..Len(calls[i]) :
              calls[i][k].namespace # "" /\ calls[i][k].release # ""

\* the delegate has been called for a pair taken from the deploy report
C5_Witness ==
    \E i \in Procs : sources[i] = {"report"} /\ Len(calls[i]) = 1

ExplicitGiven(i) == cmd[i].Namespace # "" \/ cmd[i].Release # ""

\* C6: with --use-deploy-report and an explicit namespace or release, resolution
\* fails with the conflicting-sources error, git found or not, and neither the
\* report path is resolved nor the report file read.
C6_ConflictingSources ==
    \A i \in Procs :
        (ResolveDone(i) /\ cmd[i].UseDeployReport /\ ExplicitGiven(i)) =>
            /\ pc[i] = "done" /\ result[i] = ErrConflict
            /\ ~pathResolved[i]
            /\ deployReportByte[i] = NoBytes
            /\ namespace[i] = "" /\ release[i] = ""

\* the conflict is reported in a git work tree, with a well-formed report on disk
C6_Witness ==
    \E i \in Procs :
        /\ result[i] = ErrConflict /\ gitFound[i]
        /\ reportFile = JsonFile(<< <<"namespace", "ns1">>, <<"release", "rel1">> >>)

\* the report {"namespace":""} has been read by a process given no explicit flag
EmptyNamespaceReportRead(i) ==
    /\ cmd[i].UseDeployReport /\ ~ExplicitGiven(i)
    /\ deployReportByte[i] = JsonFile(<< <<"namespace", "">> >>)

\* C7 as claimed: the report {"namespace":""} makes resolution fail with the
\* error citing the release field, the file is left as it was and no lock
\* manager or lock is made.
C7_CitesRelease ==
    \A i \in Procs :
        EmptyNamespaceReportRead(i) =>
            /\ pc[i] = "done" /\ result[i] = ErrReportRelease
            /\ reportFile = deployReportByte[i]
            /\ NoSideEffect(i)

\* C7 amended: a report that parses with an empty namespace and no release makes
\* resolution fail with the error citing the namespace field (the namespace is
\* checked first), the file is left as it was and no lock manager or lock is made.
C7_CitesNamespace ==
    \A i \in Procs :
        ( /\ cmd[i].UseDeployReport /\ ~ExplicitGiven(i)
          /\ deployReportByte[i].kind = "json"
          /\ deployReportByte[i].members # <<>>
          /\ \A k \in 1..Len(deployReportByte[i].members) :
                deployReportByte[i].members[k] = <<"namespace", "">> ) =>
            /\ pc[i] = "done" /\ result[i] = ErrReportNamespace
            /\ reportFile = deployReportByte[i]
            /\ NoSideEffect(i)

\* resolution has failed on the report {"namespace":""}
C7_Witness ==
    \E i \in Procs : EmptyNamespaceReportRead(i) /\ result[i] = ErrReportNamespace

\* C8: without --use-deploy-report and without git, exactly one of --namespace
\* and --release makes resolution fail with the error naming the missing flag;
\* nothing is done with the given one.
C8_AsymmetricFlags ==
    \A i \in Procs :
        ( /\ ResolveDone(i) /\ ~cmd[i].UseDeployReport /\ ~gitFound[i]
          /\ (cmd[i].Namespace = "") # (cmd[i].Release = "") ) =>
            /\ pc[i] = "done"
            /\ result[i] = IF cmd[i].Release = "" THEN ErrReleaseMissing ELSE ErrNamespaceMissing
            /\ namespace[i] = "" /\ release[i] = ""
            /\ NoSideEffect(i)

\* --release alone has been rejected
C8_Witness ==
    \E i \in Procs :
        /\ cmd[i].Namespace = "" /\ cmd[i].Release # "" /\ ~gitFound[i]
        /\ result[i] = ErrNamespaceMissing

\* C9: without flags, deploy report and git, resolution fails with the
\* nothing-specified error and no lock manager, history query or delegate call
\* follows.
C9_NothingSpecified ==
    \A i \in Procs :
        ( /\ i \in launched /\ ResolveDone(i)
          /\ ~cmd[i].UseDeployReport /\ ~gitFound[i] /\ ~ExplicitGiven(i) ) =>
            /\ pc[i] = "done" /\ result[i] = ErrNothingSpecified
            /\ namespace[i] = "" /\ release[i] = ""
            /\ NoSideEffect(i)

C9_Witness ==
    \E i \in Procs : result[i] = ErrNothingSpecified /\ pc[i] = "done"

\* the report documents that hold namespace ns and release rel
ReportsOf(ns, rel) ==
    {JsonFile(<< <<"namespace", ns>>, <<"release", rel>> >>),
     JsonFile(<< <<"release", rel>>, <<"namespace", ns>> >>)}

\* C10: a report holding a non-empty namespace and a non-empty release, read
\* with --use-deploy-report and no explicit flag, resolves to exactly that
\* pair, git found or not and whatever the environment.
C10_ReportRoundTrip ==
    \A i \in Procs : \A ns \in {"ns1", "ns2"}, rel \in {"rel1"} :
        ( /\ cmd[i].UseDeployReport /\ ~ExplicitGiven(i)
          /\ deployReportByte[i] \in ReportsOf(ns, rel) ) =>
            /\ ResolvedOk(i)
            /\ namespace[i] = ns /\ release[i] = rel
            /\ \A k \in 1..Len(calls[i]) :
                  calls[i][k].namespace = ns /\ calls[i][k].release = rel

\* the pair of a report has been resolved in a git work tree with an environment
C10_Witness ==
    \E i \in Procs :
        /\ cmd[i].UseDeployReport /\ gitFound[i] /\ cmd[i].Environment = "dev"
        /\ deployReportByte[i] \in ReportsOf("ns2", "rel1")
        /\ namespace[i] = "ns2" /\ release[i] = "rel1" /\ Len(calls[i]) = 1

\* more than one identity source is selected by the input of process i
SeveralSourcesSelected(i) ==
    \/ cmd[i].UseDeployReport /\ ExplicitGiven(i)
    \/ gitFound[i] /\ ExplicitGiven(i)
    \/ cmd[i].UseDeployReport /\ gitFound[i]

ConfigurationErrors == {ErrConflict, ErrNothingSpecified, ErrReleaseMissing, ErrNamespaceMissing}

\* C11 as claimed: at most one identity source is consulted, and an input that
\* selects more than one is rejected as a configuration error before any side
\* effect.
C11_OneSourceOrRejected ==
    \A i \in Procs :
        ResolveDone(i) =>
            /\ ResolvedOk(i) => Cardinality(sources[i]) <= 1
            /\ SeveralSourcesSelected(i) =>
                  /\ pc[i] = "done" /\ result[i] \in ConfigurationErrors
                  /\ NoSideEffect(i)

\* C11 amended: the pair is produced by exactly one branch, the deploy report
\* before the project and the project before the bare flags; explicit flags
\* with --use-deploy-report are the one combination rejected as a
\* configuration error, before any side effect; a deploy report in a git work
\* tree is used and the project is not consulted; explicit flags in a git work
\* tree are handed to the project branch and raise no configuration error.
C11_SourcePrecedence ==
    \A i \in Procs :
        ResolveDone(i) =>
            /\ ~({"report", "project"} \subseteq sources[i])
            /\ (cmd[i].UseDeployReport /\ ExplicitGiven(i)) =>
                  /\ pc[i] = "done" /\ result[i] = ErrConflict
                  /\ NoSideEffect(i)
            /\ (cmd[i].UseDeployReport /\ ~ExplicitGiven(i)) =>
                  /\ sources[i] = {"report"}
                  /\ result[i] \notin ConfigurationErrors
            /\ (~cmd[i].UseDeployReport /\ gitFound[i]) =>
                  /\ "project" \in sources[i] /\ "report" \notin sources[i]
                  /\ result[i] \notin ConfigurationErrors
                  /\ deployReportByte[i] = NoBytes
            /\ (~cmd[i].UseDeployReport /\ ~gitFound[i] /\ ResolvedOk(i)) =>
                  sources[i] = {"flags"}

\* in a git work tree the pair of the deploy report has been used for a delegate call
C11_Witness ==
    \E i \in Procs :
        /\ cmd[i].UseDeployReport /\ gitFound[i]
        /\ sources[i] = {"report"} /\ ResolvedOk(i)
        /\ Len(calls[i]) = 1

\* C12: no error is swallowed but release-not-found: an error of the history
\* query other than not-found and an error of the delegate end the process
\* with a failure, and nil is returned only when the delegate succeeded or the
\* release was reported not found.
C12_NoErrorSwallowed ==
    \A i \in Procs :
        /\ history[i] = "error" =>
              pc[i] = "done" /\ result[i] \notin {Ok, Running} /\ calls[i] = <<>>
        /\ (pc[i] = "done" /\ cmdErr[i] \notin {NoErr, Ok}) => result[i] = cmdErr[i]
        /\ result[i] = Ok => (history[i] = "notfound" \/ Len(calls[i]) = 1)

\* C13: on the locked path a failure to create the lock manager or to acquire
\* the lock ends the process with that failure and without a delegate call:
\* the delegate is called only with a lock manager made and its lock held.
C13_LockFailureIsFatal ==
    \A i \in Procs :
        /\ result[i] \in {ErrLockManager, ErrLock} =>
              /\ Locked(i) /\ pc[i] = "done"
              /\ calls[i] = <<>> /\ held[i] = NoLock
        /\ (Locked(i) /\ pc[i] \in {"history", "lock", "delegate", "running", "unlock"}) =>
              lockManager[i] = namespace[i]
        /\ (Locked(i) /\ calls[i] # <<>>) =>
              /\ lockManager[i] = namespace[i]
              /\ calls[i][1].lock = LockKey(lockManager[i], release[i])

\* one process has failed to create its lock manager, another to acquire its lock
C13_Witness ==
    \E i, j \in Procs :
        /\ result[i] = ErrLockManager /\ calls[i] = <<>>
        /\ result[j] = ErrLock /\ calls[j] = <<>> /\ lockManager[j] # NoManager

\* C15: every delegate call carries DontFailIfNoRelease = TRUE, so a delegate
\* entered after the release has vanished can still succeed and never fails
\* for the release being absent.
C15_RaceClosed ==
    \A i \in Procs :
        /\ \A k \in 1..Len(calls[i]) : calls[i][k].DontFailIfNoRelease
        /\ pc[i] = "running" => Ok \in UninstallOutcomes(i)
        /\ result[i] # ErrNoRelease /\ cmdErr[i] # ErrNoRelease

\* two processes saw the release in its history; the first removed it while the
\* second awaited the lock, and the second's delegate call succeeded all the same
C15_Witness ==
    \E i, j \in Procs :
        /\ i # j /\ Locked(i) /\ Locked(j)
        /\ namespace[i] = namespace[j] /\ release[i] = release[j]
        /\ history[i] = "found" /\ history[j] = "found"
        /\ Len(calls[i]) = 1 /\ Len(calls[j]) = 1
        /\ result[i] = Ok /\ result[j] = Ok
        /\ <<namespace[i], release[i]>> \notin releases

(* --------------------- logging.RunWithDeferredLog ---------------------- *)

\* the lines a function may log and the errors it may return (Ok is nil)
LogLines == {"building", "pushing"}
RunErrors == {Ok, "run failed", ErrCancelled}

InitLog ==
    /\ launched = {}
    /\ cmd = [i \in Procs |-> NoFlags]
    /\ reportFile = NoFile
    /\ workTree = [i \in Procs |-> FALSE]
    /\ AtStart
    /\ deferLog \in BOOLEAN
    /\ run \in [lines : SeqsUpTo(LogLines, MaxLines), err : RunErrors]
    /\ logPc = "start"
    /\ logged = 0
    /\ runCalls = 0
    /\ ctxLog = <<>>
    /\ buf = <<>>
    /\ stdout = <<>>
    /\ ret = Running

\* lines 113-121: run is given the caller's context, or one whose logger
\* writes to a fresh buffer when deferLog is set
CallRun ==
    /\ logPc = "start"
    /\ logPc' = "run"
    /\ runCalls' = runCalls + 1
    /\ buf' = <<>>
    /\ UNCHANGED <<dismissVars, deferLog, run, logged, ctxLog, stdout, ret>>

\* run logs its next line through the logger of the context it was given
RunLogs ==
    /\ logPc = "run"
    /\ logged < Len(run.lines)
    /\ logged' = logged + 1
    /\ IF deferLog
       THEN buf' = Append(buf, run.lines[logged + 1]) /\ ctxLog' = ctxLog
       ELSE ctxLog' = Append(ctxLog, run.lines[logged + 1]) /\ buf' = buf
    /\ UNCHANGED <<dismissVars, deferLog, run, logPc, runCalls, stdout, ret>>

\* lines 114 and 121: run returns
RunReturns ==
    /\ logPc = "run"
    /\ logged = Len(run.lines)
    /\ IF deferLog
       THEN logPc' = "check" /\ ret' = ret
       ELSE logPc' = "returned" /\ ret' = run.err
    /\ UNCHANGED <<dismissVars, deferLog, run, logged, runCalls, ctxLog, buf, stdout>>

\* lines 122-125: fmt.Println(buf.String()) when run failed
PrintOnError ==
    /\ logPc = "check"
    /\ stdout' = IF run.err # Ok THEN stdout \o buf \o <<"">> ELSE stdout
    /\ ret' = run.err
    /\ logPc' = "returned"
    /\ UNCHANGED <<dismissVars, deferLog, run, logged, runCalls, ctxLog, buf>>

NextLog == CallRun \/ RunLogs \/ RunReturns \/ PrintOnError

SpecLog == InitLog /\ [][NextLog]_vars

\* everything written out, by the caller's logger and by fmt.Println
Printed == ctxLog \o stdout

LogShown ==
    /\ Len(Printed) >= Len(run.lines)
    /\ SubSeq(Printed, 1, Len(run.lines)) = run.lines

\* C14: once RunWithDeferredLog has returned, run has been called once and its
\* error returned unchanged; the log of run is printed when deferLog is true,
\* and printed only if run returned an error when deferLog is false.
C14_LogPrintedAsDocumented ==
    (logPc = "returned" /\ run.lines # <<>>) =>
        /\ runCalls = 1
        /\ ret = run.err
        /\ deferLog => LogShown
        /\ ~deferLog => (LogShown <=> run.err # Ok)

====
